---- MODULE Spec2Model ----
(***************************************************************************)
(* Model of evaluation.py: the three behavioural-test scorers              *)
(* (evaluate_mft, evaluate_inv, evaluate_dir), the dispatcher              *)
(* evaluate_file and the batch driver main.                                *)
(*                                                                         *)
(* A file is a sequence of lines.  A line is blank, a row of five          *)
(* tab-separated fields, or a line that does not split into five fields.   *)
(* token_id is never read by the scorers and is left out of a row.         *)
(* A sentence id is a number: evaluate_mft compares the ids as the texts   *)
(* of the file and evaluate_inv / evaluate_dir as int(text), which agree   *)
(* on decimal numerals; a row whose id is no numeral counts, for the pair  *)
(* scorers, as a line that does not unpack (ValueError either way).        *)
(* An uncaught Python exception is the outcome [kind |-> "raise"].         *)
(***************************************************************************)
EXTENDS Integers, Sequences, FiniteSets

\* ------------------------------------------------------------- bounds
\* the lines of a file given to evaluate_mft
MaxLines == 4
\* the sentence ids 1..MaxMftSid of a file given to evaluate_mft
MaxMftSid == 2
\* the sentence ids 1..MaxSid of a file given to evaluate_inv or evaluate_dir
MaxSid == 3
\* the lines of a file given to evaluate_inv or evaluate_dir
MaxPairLines == 4
\* the files of a batch given to main
MaxFiles == 2
\* the sentence counts the rate is computed on
MaxCount == 50

\* ------------------------------------------------------------- inputs
\* Python's None and a value that is not None, for a variable that holds either
None == <<>>
Some(x) == <<x>>
Blank == [kind |-> "blank"]
Malformed == [kind |-> "malformed"]

Row(sid, tok, gold, sys) ==
    [kind |-> "row", sentence_id |-> sid, token |-> tok,
     gold_label |-> gold, system_label |-> sys]

SentenceIds == 1..MaxSid
MftSentenceIds == 1..MaxMftSid
GoldLabels == {"_", "ARG0", "ARG1"}
SystemLabels == {"ARG0", "ARG1"}
Tokens == {"ran", "dog"}

\* ------------------------------------------------------------- outcomes
Return(rate, ids) == [kind |-> "return", failure_rate |-> rate, failed_ids |-> ids]
Raise(e) == [kind |-> "raise", exc |-> e]
Running == [kind |-> "running"]

\* ------------------------------------------------- binary64 arithmetic
\* Python's float is IEEE-754 binary64.  A positive double is [sig, exp]:
\* sig is the 53-bit significand as five limbs <<1, c1, c2, c3, c4>> in base
\* 2^13 (the leading limb is the hidden bit), and the value is
\* (2^52 + c1*2^39 + c2*2^26 + c3*2^13 + c4) * 2^(exp - 52).
\* Zero is the empty significand.
LimbBits == 13
Limb == 2 ^ LimbBits
FloatZero == [sig |-> <<>>, exp |-> 0]

RECURSIVE Normalize(_, _, _)
\* <<n', d', e>> with n/d = (n'/d') * 2^e and 1 <= n'/d' < 2
Normalize(n, d, e) ==
    IF n >= 2 * d THEN Normalize(n, 2 * d, e + 1)
    ELSE IF n < d THEN Normalize(2 * n, d, e - 1)
    ELSE <<n, d, e>>

\* sig + 1 unit in the last place, renormalised when it reaches 2^53
RoundUp(sig, exp) ==
    LET full == {k \in 2..5 : sig[k] = Limb - 1}
        \* the lowest limb that takes the carry
        at == IF \E k \in 1..5 : \A j \in (k + 1)..5 : j \in full
              THEN CHOOSE k \in 1..5 :
                     /\ \A j \in (k + 1)..5 : j \in full
                     /\ k = 1 \/ k \notin full
              ELSE 5
        up == [k \in 1..5 |->
                 IF k < at THEN sig[k] ELSE IF k = at THEN sig[k] + 1 ELSE 0]
    IN  IF up[1] = 2
        THEN [sig |-> <<1, 0, 0, 0, 0>>, exp |-> exp + 1]
        ELSE [sig |-> up, exp |-> exp]

\* n / d for Python ints n >= 0, d > 0: the correctly rounded quotient
\* (round to nearest, ties to even), by long division in base 2^13
TrueDiv(n, d) ==
    IF n = 0 THEN FloatZero
    ELSE
      LET nm == Normalize(n, d, 0)
          dd == nm[2]
          r0 == nm[1] - dd
          c1 == (r0 * Limb) \div dd
          r1 == (r0 * Limb) % dd
          c2 == (r1 * Limb) \div dd
          r2 == (r1 * Limb) % dd
          c3 == (r2 * Limb) \div dd
          r3 == (r2 * Limb) % dd
          c4 == (r3 * Limb) \div dd
          r4 == (r3 * Limb) % dd
          sig == <<1, c1, c2, c3, c4>>
      IN  IF 2 * r4 > dd \/ (2 * r4 = dd /\ c4 % 2 = 1)
          THEN RoundUp(sig, nm[3])
          ELSE [sig |-> sig, exp |-> nm[3]]

\* x * 100 (the int 100 converts to 100.0 exactly): the exact product of the
\* significand by 100, shifted back to 53 bits, rounded to nearest even
MulHundred(x) ==
    IF x.sig = <<>> THEN FloatZero
    ELSE
      LET p4 == x.sig[5] * 100
          p3 == x.sig[4] * 100 + p4 \div Limb
          p2 == x.sig[3] * 100 + p3 \div Limb
          p1 == x.sig[2] * 100 + p2 \div Limb
          p0 == x.sig[1] * 100 + p1 \div Limb
          l == <<p0, p1 % Limb, p2 % Limb, p3 % Limb, p4 % Limb>>
          \* the product has 59 bits when p0 < 128 and 60 otherwise
          s == IF p0 < 128 THEN 6 ELSE 7
          m == [k \in 1..5 |->
                  IF k = 1 THEN l[1] \div (2 ^ s)
                  ELSE (l[k - 1] % (2 ^ s)) * (2 ^ (LimbBits - s)) + l[k] \div (2 ^ s)]
          low == l[5] % (2 ^ s)
          half == 2 ^ (s - 1)
      IN  IF low > half \/ (low = half /\ m[5] % 2 = 1)
          THEN RoundUp(m, x.exp + s)
          ELSE [sig |-> m, exp |-> x.exp + s]

\* int(x): truncation toward zero of a non-negative double below 2^27
IntTrunc(x) ==
    IF x.sig = <<>> \/ x.exp < 0 THEN 0
    ELSE IF x.exp <= LimbBits
    THEN x.sig[1] * (2 ^ x.exp) + x.sig[2] \div (2 ^ (LimbBits - x.exp))
    ELSE x.sig[1] * (2 ^ x.exp) + x.sig[2] * (2 ^ (x.exp - LimbBits))
           + x.sig[3] \div (2 ^ (2 * LimbBits - x.exp))

\* failure_rate = (failed / total) * 100; return int(failure_rate), ids
FailureRate(failed, total, ids) ==
    IF total = 0 THEN Raise("ZeroDivisionError")
    ELSE Return(IntTrunc(MulHundred(TrueDiv(failed, total))), ids)

\* ------------------------------------------------------------ state
VARIABLES
    input,      \* evaluate_mft: the lines of the file consumed so far
    lineno,     \* the number of lines the running scorer has consumed
    file_ids,   \* evaluate_inv / evaluate_dir: the sentence ids of the rows consumed
    pc,         \* where the running function is
    result,     \* the outcome of the running function
    mft,        \* the locals of evaluate_mft
    pair,       \* the locals of evaluate_inv / evaluate_dir
    batch,      \* main: the .tsv and other files of the output directories
    cursor,     \* main: the directory and file the loops are at
    printed     \* main: what has been printed so far

vars == <<input, lineno, file_ids, pc, result, mft, pair, batch, cursor, printed>>

\* ------------------------------------------------------- evaluate_mft
\* line 30: the five-way tuple unpacking of line.strip().split('\t')
Unpacks(line) == line.kind = "row"

\* lines 12-16
MftStart ==
    [current_sentence_id |-> None, sentence_labels_match |-> TRUE,
     total_sentences |-> 0, failed_sentences |-> 0, failed_sentence_ids |-> <<>>]

\* bug: the blank line does not reset sentence_labels_match (line 27), so the
\* next sentence's first row records the closed sentence a second time
MftBlankNoReset(s) ==
    IF s.current_sentence_id # None
    THEN [s EXCEPT
            !.total_sentences = @ + 1,
            !.failed_sentences = IF s.sentence_labels_match THEN @ ELSE @ + 1,
            !.failed_sentence_ids =
                IF s.sentence_labels_match THEN @ ELSE Append(@, s.current_sentence_id[1])]
    ELSE s

\* lines 20-28: an empty line
MftBlank(s) ==
    IF s.current_sentence_id # None
    THEN [s EXCEPT
            !.total_sentences = @ + 1,
            !.failed_sentences = IF s.sentence_labels_match THEN @ ELSE @ + 1,
            !.failed_sentence_ids =
                IF s.sentence_labels_match THEN @ ELSE Append(@, s.current_sentence_id[1]),
            !.sentence_labels_match = TRUE]
    ELSE s

\* lines 33-44: a token row
MftRow(s, line) ==
    IF Some(line.sentence_id) = s.current_sentence_id
    THEN IF line.gold_label # "_" /\ line.gold_label # line.system_label
         THEN [s EXCEPT !.sentence_labels_match = FALSE]
         ELSE s
    ELSE [s EXCEPT
            !.failed_sentences =
                IF s.current_sentence_id # None /\ ~s.sentence_labels_match
                THEN @ + 1 ELSE @,
            !.failed_sentence_ids =
                IF s.current_sentence_id # None /\ ~s.sentence_labels_match
                THEN Append(@, s.current_sentence_id[1]) ELSE @,
            !.current_sentence_id = Some(line.sentence_id),
            !.sentence_labels_match =
                (line.gold_label = "_" \/ line.gold_label = line.system_label)]

\* one iteration of the loop of line 18 on a line that unpacks
MftLine(s, line) == IF line.kind = "blank" THEN MftBlank(s) ELSE MftRow(s, line)

\* lines 46-47
MftFinish(s) == FailureRate(s.failed_sentences, s.total_sentences, s.failed_sentence_ids)

RECURSIVE MftLoop(_, _, _)
MftLoop(s, file, k) ==
    IF k > Len(file) THEN MftFinish(s)
    ELSE IF file[k].kind # "blank" /\ ~Unpacks(file[k]) THEN Raise("ValueError")
    ELSE MftLoop(MftLine(s, file[k]), file, k + 1)

\* the whole call
evaluate_mft(file) == MftLoop(MftStart, file, 1)

\* ------------------------------------------ evaluate_inv, evaluate_dir
\* A dict is a function on its keys.  A failed pair f"{a}-{b}" is <<a, b>>.
EmptyDict == [k \in {} |-> <<>>]

\* lines 75-79 and 137-140: sentences_data[sentence_id].append(item)
AppendTo(d, k, item) ==
    [j \in DOMAIN d \cup {k} |->
        IF j \notin DOMAIN d THEN <<item>>
        ELSE IF j = k THEN Append(d[j], item) ELSE d[j]]

\* lines 67-79: one row of evaluate_inv's reading loop
InvRead(d, line) ==
    IF line.gold_label = "_" THEN d
    ELSE AppendTo(d, line.sentence_id, <<line.gold_label, line.system_label>>)

\* lines 130-140: one row of evaluate_dir's reading loop
DirRead(d, line) ==
    IF line.gold_label = "_" THEN d
    ELSE AppendTo(d, line.sentence_id, <<line.token, line.gold_label, line.system_label>>)

\* sorted(keys)
Sorted(S) ==
    [n \in 1..Cardinality(S) |-> CHOOSE k \in S : Cardinality({j \in S : j <= k}) = n]

RECURSIVE DictOf(_, _)
\* a dict comprehension over the first k of the <<key, value>> items, in
\* order: a later item overwrites an earlier one with the same key
DictOf(items, k) ==
    IF k = 0 THEN EmptyDict
    ELSE LET d == DictOf(items, k - 1)
         IN  [j \in DOMAIN d \cup {items[k][1]} |->
                 IF j = items[k][1] THEN items[k][2] ELSE d[j]]

\* lines 94-102: whether the loop over the first sentence's tokens sets pair_failed
InvPairFailed(first_sentence_data, second_sentence_data) ==
    LET second_sentence_map == DictOf(second_sentence_data, Len(second_sentence_data))
    IN  \E n \in 1..Len(first_sentence_data) :
            /\ first_sentence_data[n][1] \in DOMAIN second_sentence_map
            /\ first_sentence_data[n][2] # second_sentence_map[first_sentence_data[n][1]]

\* bug: the loop runs over the first sentence's tokens, as evaluate_inv's does,
\* and not over first_sentence_map
DirPairFailedPerToken(first_sentence_data, second_sentence_data) ==
    LET items(data) == [n \in 1..Len(data) |-> <<data[n][1], <<data[n][2], data[n][3]>>>>]
        second_sentence_map == DictOf(items(second_sentence_data), Len(second_sentence_data))
    IN  \E n \in 1..Len(first_sentence_data) :
            /\ first_sentence_data[n][1] \in DOMAIN second_sentence_map
            /\ first_sentence_data[n][3] = second_sentence_map[first_sentence_data[n][1]][2]

\* lines 152-163: whether the loop over first_sentence_map.items() sets pair_failed
DirPairFailed(first_sentence_data, second_sentence_data) ==
    LET items(data) == [n \in 1..Len(data) |-> <<data[n][1], <<data[n][2], data[n][3]>>>>]
        first_sentence_map == DictOf(items(first_sentence_data), Len(first_sentence_data))
        second_sentence_map == DictOf(items(second_sentence_data), Len(second_sentence_data))
    IN  \E t \in DOMAIN first_sentence_map :
            /\ t \in DOMAIN second_sentence_map
            /\ first_sentence_map[t][2] = second_sentence_map[t][2]

\* the scorers differ in what they keep of a row and in how they judge a pair
ReadRow(test, d, line) == IF test = "INV" THEN InvRead(d, line) ELSE DirRead(d, line)

PairFailed(test, first_sentence_data, second_sentence_data) ==
    IF test = "INV"
    THEN InvPairFailed(first_sentence_data, second_sentence_data)
    ELSE DirPairFailed(first_sentence_data, second_sentence_data)

\* lines 57-60 and 120-123
PairStart ==
    [sentences_data |-> EmptyDict, sentence_ids |-> <<>>, warned |-> FALSE, i |-> 0,
     total_pairs |-> 0, failed_pairs |-> 0, failed_sentence_ids |-> <<>>]

\* lines 81-84 and 142-144
PairSort(s) ==
    [s EXCEPT !.sentence_ids = Sorted(DOMAIN s.sentences_data),
              !.warned = (Cardinality(DOMAIN s.sentences_data) % 2 # 0)]

\* lines 88-89 and 147-148: sentence_ids[i + 1] is past the end of the list
\* (i counts from 0 as in the source; a TLA+ sequence counts from 1)
PairIndexError(s) == s.i + 2 > Len(s.sentence_ids)

\* lines 88-107 and 147-167: one iteration of the loop over the pairs
PairStep(test, s) ==
    LET a == s.sentence_ids[s.i + 1]
        b == s.sentence_ids[s.i + 2]
        pair_failed == PairFailed(test, s.sentences_data[a], s.sentences_data[b])
    IN  [s EXCEPT
            !.total_pairs = @ + 1,
            !.failed_pairs = IF pair_failed THEN @ + 1 ELSE @,
            !.failed_sentence_ids = IF pair_failed THEN Append(@, <<a, b>>) ELSE @,
            !.i = @ + 2]

\* lines 109-110 and 169-170
PairFinish(s) == FailureRate(s.failed_pairs, s.total_pairs, s.failed_sentence_ids)

RECURSIVE PairReadLoop(_, _, _, _)
\* the reading loop from line k of the file on
PairReadLoop(test, d, file, k) ==
    IF k > Len(file) THEN [kind |-> "read", sentences_data |-> d]
    ELSE IF file[k].kind = "blank" THEN PairReadLoop(test, d, file, k + 1)
    ELSE IF ~Unpacks(file[k]) THEN Raise("ValueError")
    ELSE PairReadLoop(test, ReadRow(test, d, file[k]), file, k + 1)

RECURSIVE PairLoop(_, _)
\* the loop over the pairs from iteration s.i on, and the return
PairLoop(test, s) ==
    IF s.i >= Len(s.sentence_ids) THEN PairFinish(s)
    ELSE IF PairIndexError(s) THEN Raise("IndexError")
    ELSE PairLoop(test, PairStep(test, s))

EvaluatePairs(test, file) ==
    LET r == PairReadLoop(test, EmptyDict, file, 1)
    IN  IF r.kind = "raise" THEN r
        ELSE PairLoop(test, PairSort([PairStart EXCEPT !.sentences_data = r.sentences_data]))

\* the whole calls
evaluate_inv(file) == EvaluatePairs("INV", file)
evaluate_dir(file) == EvaluatePairs("DIR", file)

\* -------------------------------------------------- evaluate_mft, running
MftLines ==
    {Blank, Malformed}
      \cup {Row(sid, "ran", g, y) : sid \in MftSentenceIds, g \in {"_", "ARG0"}, y \in SystemLabels}

\* main is not running
NoBatch == <<>>
NoCursor == [dir |-> 0, file |-> 0]

InitMFT ==
    /\ input = <<>>
    /\ lineno = 0
    /\ file_ids = {}
    /\ pc = "loop"
    /\ result = Running
    /\ mft = MftStart
    /\ pair = PairStart
    /\ batch = NoBatch
    /\ cursor = NoCursor
    /\ printed = <<>>

\* the loop reads the next line of the file
MftReadLine ==
    /\ pc = "loop"
    /\ lineno < MaxLines
    /\ \E line \in MftLines :
         /\ input' = Append(input, line)
         /\ lineno' = lineno + 1
         /\ IF line.kind # "blank" /\ ~Unpacks(line)
            THEN /\ result' = Raise("ValueError")
                 /\ pc' = "done"
                 /\ mft' = mft
            ELSE /\ mft' = MftLine(mft, line)
                 /\ UNCHANGED <<pc, result>>
    /\ UNCHANGED <<file_ids, pair, batch, cursor, printed>>

\* the file ends: lines 46-47
MftReturn ==
    /\ pc = "loop"
    /\ result' = MftFinish(mft)
    /\ pc' = "done"
    /\ UNCHANGED <<input, lineno, file_ids, mft, pair, batch, cursor, printed>>

NextMFT == MftReadLine \/ MftReturn

SpecMFT == InitMFT /\ [][NextMFT]_vars

\* ---------------------------------------------- the rate, on any counts
\* A file of total sentences with ids 1..total, one token each, each followed
\* by a blank line, of which the first failed mismatch; and the locals of
\* evaluate_mft at the end of that file.
RateFile(failed, total) ==
    [k \in 1..(2 * total) |->
        IF k % 2 = 0 THEN Blank
        ELSE Row((k + 1) \div 2, "ran", "ARG0",
                 IF (k + 1) \div 2 <= failed THEN "ARG1" ELSE "ARG0")]

RateLocals(failed, total) ==
    [current_sentence_id |-> Some(total), sentence_labels_match |-> TRUE,
     total_sentences |-> total, failed_sentences |-> failed,
     failed_sentence_ids |-> [k \in 1..failed |-> k]]

InitRate ==
    /\ \E total \in 1..MaxCount : \E failed \in 0..total :
         /\ input = RateFile(failed, total)
         /\ lineno = 2 * total
         /\ mft = RateLocals(failed, total)
    /\ file_ids = {}
    /\ pc = "loop"
    /\ result = Running
    /\ pair = PairStart
    /\ batch = NoBatch
    /\ cursor = NoCursor
    /\ printed = <<>>

SpecRate == InitRate /\ [][MftReturn]_vars

\* ----------------------------------- evaluate_inv, evaluate_dir, running
\* the lines a file of an INV test is made of (the token text is not read)
InvLines ==
    {Blank, Malformed}
      \cup {Row(sid, "ran", g, y) : sid \in SentenceIds, g \in GoldLabels, y \in SystemLabels}

\* the lines a file of a DIR test is made of (of the gold label, only whether
\* it is "_" is read)
DirLines ==
    {Blank, Malformed}
      \cup {Row(sid, t, g, y) :
              sid \in SentenceIds, t \in Tokens, g \in {"_", "ARG1"}, y \in SystemLabels}

InitPair ==
    /\ input = <<>>
    /\ lineno = 0
    /\ file_ids = {}
    /\ pc = "read"
    /\ result = Running
    /\ mft = MftStart
    /\ pair = PairStart
    /\ batch = NoBatch
    /\ cursor = NoCursor
    /\ printed = <<>>

\* the reading loop takes the next line of the file
PairReadLine(test, Lines) ==
    /\ pc = "read"
    /\ lineno < MaxPairLines
    /\ lineno' = lineno + 1
    /\ \E line \in Lines :
         IF line.kind = "blank" THEN UNCHANGED <<pc, result, pair, file_ids>>
         ELSE IF ~Unpacks(line)
         THEN /\ result' = Raise("ValueError")
              /\ pc' = "done"
              /\ UNCHANGED <<pair, file_ids>>
         ELSE /\ pair' = [pair EXCEPT !.sentences_data = ReadRow(test, @, line)]
              /\ file_ids' = file_ids \cup {line.sentence_id}
              /\ UNCHANGED <<pc, result>>
    /\ UNCHANGED <<input, mft, batch, cursor, printed>>

\* the file ends: the ids are sorted and an odd count is warned about
PairEndOfFile ==
    /\ pc = "read"
    /\ pair' = PairSort(pair)
    /\ pc' = "pairs"
    /\ UNCHANGED <<input, lineno, file_ids, result, mft, batch, cursor, printed>>

\* one iteration of the loop over the pairs
PairIteration(test) ==
    /\ pc = "pairs"
    /\ pair.i < Len(pair.sentence_ids)
    /\ IF PairIndexError(pair)
       THEN /\ result' = Raise("IndexError")
            /\ pc' = "done"
            /\ pair' = pair
       ELSE /\ pair' = PairStep(test, pair)
            /\ UNCHANGED <<pc, result>>
    /\ UNCHANGED <<input, lineno, file_ids, mft, batch, cursor, printed>>

\* the loop over the pairs is over
PairReturn ==
    /\ pc = "pairs"
    /\ pair.i >= Len(pair.sentence_ids)
    /\ result' = PairFinish(pair)
    /\ pc' = "done"
    /\ UNCHANGED <<input, lineno, file_ids, mft, pair, batch, cursor, printed>>

InvReadLine == PairReadLine("INV", InvLines)
InvPair == PairIteration("INV")
NextINV == InvReadLine \/ PairEndOfFile \/ InvPair \/ PairReturn
SpecINV == InitPair /\ [][NextINV]_vars

DirReadLine == PairReadLine("DIR", DirLines)
DirPair == PairIteration("DIR")
NextDIR == DirReadLine \/ PairEndOfFile \/ DirPair \/ PairReturn
SpecDIR == InitPair /\ [][NextDIR]_vars

\* ------------------------------------------------- evaluate_file, main
\* The file names a directory may hold, in sorted() order, and the substrings
\* of each that evaluate_file and main test for.
FileNames ==
    <<"DIR_M1.tsv", "INV_M1.tsv", "MFT_INV_M1.tsv", "MFT_M1.tsv", "MFT_M1.txt", "notes_M1.tsv">>

\* 'MFT' in name, 'INV' in name, 'DIR' in name
Contains(name, tag) ==
    CASE tag = "MFT" -> name \in {"MFT_INV_M1.tsv", "MFT_M1.tsv", "MFT_M1.txt"}
      [] tag = "INV" -> name \in {"INV_M1.tsv", "MFT_INV_M1.tsv"}
      [] tag = "DIR" -> name = "DIR_M1.tsv"

\* name.endswith('.tsv')
EndsWithTsv(name) == name # "MFT_M1.txt"

\* line 198: the output directories, none of whose names holds a test's tag
NumDirs == 3

\* what a file may hold: two sentences; a row that does not unpack; nothing;
\* one sentence
TwoSentences ==
    <<Row(1, "ran", "ARG0", "ARG0"), Blank, Row(2, "ran", "ARG0", "ARG1"), Blank>>
BadRow == <<Row(1, "ran", "ARG0", "ARG0"), Malformed>>
Empty == <<>>
OneSentence == <<Row(1, "ran", "ARG0", "ARG0"), Blank>>
Contents == {TwoSentences, BadRow, Empty, OneSentence}

\* line 203: sorted(the names of the directory's files)
Listing(dir) ==
    LET rank(name) == CHOOSE n \in 1..Len(FileNames) : FileNames[n] = name
        names == DOMAIN dir
    IN  [n \in 1..Cardinality(names) |->
            CHOOSE name \in names :
                Cardinality({other \in names : rank(other) <= rank(name)}) = n]

\* one line of output
Line(what, path, value) == [what |-> what, path |-> path, value |-> value]

\* lines 172-193: what evaluate_file prints and the exception it ends with,
\* if any; path is <<directory, name>>
evaluate_file(path, content) ==
    LET name == path[2]
        evaluation_type ==
            IF Contains(name, "MFT") THEN "MFT"
            ELSE IF Contains(name, "INV") THEN "INV"
            ELSE IF Contains(name, "DIR") THEN "DIR"
            ELSE "unbound"
        scored ==
            CASE evaluation_type = "MFT" -> evaluate_mft(content)
              [] evaluation_type = "INV" -> evaluate_inv(content)
              [] evaluation_type = "DIR" -> evaluate_dir(content)
              [] OTHER -> Running
    IN  IF scored.kind = "raise" THEN [printed |-> <<>>, exc |-> Some(scored.exc)]
        ELSE IF evaluation_type = "unbound"
        THEN [printed |-> <<Line("Warning", path, "could not determine evaluation type"),
                            Line("File", path, name)>>,
              exc |-> Some("UnboundLocalError")]
        ELSE [printed |->
                <<Line("File", path, name),
                  Line("Evaluation Type", path, evaluation_type),
                  Line("Failure Rate", path, scored.failure_rate)>>
                \o (IF scored.failed_ids = <<>> THEN <<>>
                    ELSE IF Contains(name, "MFT")
                    THEN <<Line("Failed Sentence IDs", path, scored.failed_ids)>>
                    ELSE <<Line("Failed Sentence Pairs", path, scored.failed_ids)>>),
              exc |-> None]

\* every way to put at most MaxFiles files into the directories
Batches ==
    LET slots == (1..NumDirs) \X {FileNames[n] : n \in 1..Len(FileNames)}
        chosen == {S \in SUBSET slots : Cardinality(S) <= MaxFiles}
    IN  UNION {[S -> Contents] : S \in chosen}

\* the files of directory d of a batch: name -> content
Directory(b, d) ==
    [name \in {x[2] : x \in {y \in DOMAIN b : y[1] = d}} |-> b[<<d, name>>]]

InitMain ==
    /\ batch \in Batches
    /\ cursor = [dir |-> 1, file |-> 0]
    /\ pc = "dirs"
    /\ printed = <<>>
    /\ result = Running
    /\ input = <<>>
    /\ lineno = 0
    /\ file_ids = {}
    /\ mft = MftStart
    /\ pair = PairStart

\* lines 200-203: the loop enters the next directory
MainEnterDir ==
    /\ pc = "dirs"
    /\ cursor.dir <= NumDirs
    /\ printed' = Append(printed, Line("Evaluating model", <<cursor.dir>>, cursor.dir))
    /\ cursor' = [cursor EXCEPT !.file = 1]
    /\ pc' = "files"
    /\ UNCHANGED <<input, lineno, file_ids, result, mft, pair, batch>>

\* lines 205-209: the loop takes the next file of the directory
MainFile ==
    /\ pc = "files"
    /\ cursor.file <= Len(Listing(Directory(batch, cursor.dir)))
    /\ LET filename == Listing(Directory(batch, cursor.dir))[cursor.file]
           file_path == <<cursor.dir, filename>>
           done == evaluate_file(file_path, batch[file_path])
       IN  IF ~EndsWithTsv(filename)
           THEN /\ cursor' = [cursor EXCEPT !.file = @ + 1]
                /\ UNCHANGED <<pc, result, printed>>
           ELSE /\ printed' = printed \o done.printed
                /\ IF done.exc # None
                   THEN /\ result' = Raise(done.exc[1])
                        /\ pc' = "done"
                        /\ cursor' = cursor
                   ELSE /\ cursor' = [cursor EXCEPT !.file = @ + 1]
                        /\ UNCHANGED <<pc, result>>
    /\ UNCHANGED <<input, lineno, file_ids, mft, pair, batch>>

\* line 210: the directory is done
MainLeaveDir ==
    /\ pc = "files"
    /\ cursor.file > Len(Listing(Directory(batch, cursor.dir)))
    /\ printed' = Append(printed, Line("-------", <<cursor.dir>>, cursor.dir))
    /\ cursor' = [dir |-> cursor.dir + 1, file |-> 0]
    /\ pc' = "dirs"
    /\ UNCHANGED <<input, lineno, file_ids, result, mft, pair, batch>>

\* the loop over the directories is over
MainReturn ==
    /\ pc = "dirs"
    /\ cursor.dir > NumDirs
    /\ result' = [kind |-> "return"]
    /\ pc' = "done"
    /\ UNCHANGED <<input, lineno, file_ids, mft, pair, batch, cursor, printed>>

NextMain == MainEnterDir \/ MainFile \/ MainLeaveDir \/ MainReturn
SpecMain == InitMain /\ [][NextMain]_vars

\* =============================================================== claims
\* ----- reference notions used to state the claims about evaluate_mft
\* a token of the file that mismatches: an evaluated gold label the system missed
Mismatch(line) ==
    line.kind = "row" /\ line.gold_label # "_" /\ line.system_label # line.gold_label

\* the positions of the file where a sentence starts: a row that follows
\* nothing, a blank line, or a row of another sentence
SentenceStarts(file) ==
    {k \in 1..Len(file) :
        /\ file[k].kind = "row"
        /\ \/ k = 1
           \/ file[k - 1].kind # "row"
           \/ file[k - 1].sentence_id # file[k].sentence_id}

\* the positions of the sentence that starts at k
SentenceAt(file, k) ==
    {j \in k..Len(file) :
        \A m \in k..j : file[m].kind = "row" /\ file[m].sentence_id = file[k].sentence_id}

\* the ids, in file order, of the sentences with a mismatching token
ExpectedFailedIds(file) ==
    LET bad == {k \in SentenceStarts(file) : \E j \in SentenceAt(file, k) : Mismatch(file[j])}
        nth(n) == CHOOSE k \in bad : Cardinality({j \in bad : j <= k}) = n
    IN  [n \in 1..Cardinality(bad) |-> file[nth(n)].sentence_id]

MftReturned == pc = "done" /\ result.kind = "return"

\* C1: when evaluate_mft returns, failed_ids holds exactly the sentences of
\* the file with a token whose gold label is not "_" and differs from its
\* system label.  (Violated: the last sentence is never recorded when no
\* blank line follows it.)
C1_FailedIffMismatch ==
    MftReturned => result.failed_ids = ExpectedFailedIds(input)

\* C4: a returned failure rate is an integer in [0, 100].  (Violated: a
\* sentence closed by a change of id adds to the failures and not to the total.)
C4_RateInRange ==
    MftReturned => result.failure_rate \in 0..100

\* C9: evaluate_mft returns the same rate and failed ids whether or not a
\* blank line follows the last token row.  (Violated.)
C9_TrailingBlankOptional ==
    (MftReturned /\ Len(input) > 0 /\ input[Len(input)].kind = "row")
        => result = evaluate_mft(Append(input, Blank))

\* C10: the returned rate is floor(100 * failed / total) on the integer counts,
\* for every failed <= total with total > 0.  (Violated: the quotient is
\* rounded to a double before the multiplication by 100.)
C10_RateIsFloor ==
    (MftReturned /\ mft.failed_sentences <= mft.total_sentences)
        => result.failure_rate = (100 * mft.failed_sentences) \div mft.total_sentences

\* the file read so far ends in a blank line: every sentence of it is closed
AllClosed == Len(input) > 0 /\ input[Len(input)].kind = "blank"

\* C11: every sentence is finalized exactly once, at a blank line or at a
\* change of id, so that once the sentences read are all closed the total is
\* their number and failed_sentence_ids holds the mismatching ones in file
\* order.  (Violated: a change of id does not add to the total, and every
\* further blank line adds to it again.)
C11_FinalizedOnce ==
    (pc = "loop" /\ AllClosed)
        => /\ mft.total_sentences = Cardinality(SentenceStarts(input))
           /\ mft.failed_sentence_ids = ExpectedFailedIds(input)

\* s is the beginning of t
IsPrefix(s, t) == Len(s) <= Len(t) /\ \A n \in 1..Len(s) : s[n] = t[n]

\* C13: after any rows and blank lines the failure count is the length of
\* failed_sentence_ids, and no sentence has more than one entry in it: the
\* entries are, in order, mismatching sentences of the file read so far, each
\* taken once.
C13_NoDoubleCounting ==
    /\ mft.failed_sentences = Len(mft.failed_sentence_ids)
    /\ IsPrefix(mft.failed_sentence_ids, ExpectedFailedIds(input))

\* C13's case: a mismatching sentence was closed by a blank line, the next
\* row then started a sentence with another id, and the first sentence has
\* its one entry
C13_Witness ==
    /\ pc = "loop"
    /\ Len(input) = 3
    /\ Mismatch(input[1])
    /\ input[2].kind = "blank"
    /\ input[3].kind = "row"
    /\ input[3].sentence_id # input[1].sentence_id
    /\ mft.failed_sentence_ids = <<input[1].sentence_id>>
    /\ mft.failed_sentences = 1

\* ----- reference notions used to state the claims about the pair scorers
\* the keys (first components) of a sentence's retained items
Keys(data) == {data[n][1] : n \in 1..Len(data)}

\* the last retained item of a sentence with this key
LastWrite(data, key) ==
    data[CHOOSE n \in 1..Len(data) :
            /\ data[n][1] = key
            /\ \A m \in (n + 1)..Len(data) : data[m][1] # key]

\* the values of i at which the loop over the pairs has scored a pair
Scored == {k \in 0..(pair.i - 1) : k % 2 = 0 /\ k + 2 <= Len(pair.sentence_ids)}
IdA(k) == pair.sentence_ids[k + 1]
IdB(k) == pair.sentence_ids[k + 2]
SentenceA(k) == pair.sentences_data[IdA(k)]
SentenceB(k) == pair.sentences_data[IdB(k)]

RecordedFailed(k) ==
    \E n \in 1..Len(pair.failed_sentence_ids) :
        pair.failed_sentence_ids[n] = <<IdA(k), IdB(k)>>

\* C2: a pair of evaluate_inv is recorded as failed iff some gold label is in
\* both last-write-wins maps gold -> system with different system labels.
\* (Violated: the loop compares every token of sentence A, not map_A.)
C2_InvFailedIffMapsDiffer ==
    \A k \in Scored :
        RecordedFailed(k) <=>
            \E g \in Keys(SentenceA(k)) \cap Keys(SentenceB(k)) :
                LastWrite(SentenceA(k), g)[2] # LastWrite(SentenceB(k), g)[2]

\* C3: a pair of evaluate_dir is recorded as failed iff some token text is in
\* both last-write-wins maps token -> (gold, system) with the same system
\* label; so a pair with no shared token passes, and so does a pair whose
\* shared tokens all changed their system label.
C3_DirFailedIffSameLabel ==
    \A k \in Scored :
        RecordedFailed(k) <=>
            \E t \in Keys(SentenceA(k)) \cap Keys(SentenceB(k)) :
                LastWrite(SentenceA(k), t)[3] = LastWrite(SentenceB(k), t)[3]

\* C3's case: a scored pair in which sentence A holds a token text twice with
\* two system labels, the earlier of which is the label sentence B gives the
\* token, and the pair passed
C3_Witness ==
    /\ pc = "done"
    /\ result.kind = "return"
    /\ \E k \in Scored :
         /\ ~RecordedFailed(k)
         /\ \E n \in 1..Len(SentenceA(k)) : \E m \in 1..Len(SentenceB(k)) :
              /\ SentenceA(k)[n][1] = SentenceB(k)[m][1]
              /\ SentenceA(k)[n][3] = SentenceB(k)[m][3]
              /\ LastWrite(SentenceA(k), SentenceA(k)[n][1])[3] # SentenceA(k)[n][3]

OddCount == Cardinality(DOMAIN pair.sentences_data) % 2 = 1

\* C5: with an odd number of sentences the scorer still returns, having scored
\* the complete pairs.  (Violated: the loop over the pairs indexes past the
\* end of the sorted ids.)
C5_OddCountNonFatal ==
    (pc = "done" /\ OddCount /\ result # Raise("ValueError"))
        => /\ result.kind = "return"
           /\ pair.total_pairs = Cardinality(DOMAIN pair.sentences_data) \div 2

\* C6: a file with no pair (no retained token at all) gets a defined result,
\* not an exception.  (Violated: the rate divides by zero.)
C6_EmptyInputDefined ==
    (pc = "done" /\ DOMAIN pair.sentences_data = {} /\ result # Raise("ValueError"))
        => result.kind = "return"

\* the pairs (s1, s2), (s3, s4), ... of the sorted ids in S
PairsOf(S) ==
    [n \in 1..(Cardinality(S) \div 2) |-> <<Sorted(S)[2 * n - 1], Sorted(S)[2 * n]>>]

\* the pairs the loop has scored, in the order it scored them
ScoredPairs ==
    [n \in 1..pair.total_pairs |-> <<pair.sentence_ids[2 * n - 1], pair.sentence_ids[2 * n]>>]

\* C12: the pairs scored are (s1, s2), (s3, s4), ... over all the sentence ids
\* that occur in the file, sorted, and total_pairs is their number; a sentence
\* whose gold labels are all "_" keeps its place.  (Violated: such a sentence
\* never enters sentences_data, and the sentences after it change partners.)
C12_PairsOfAllIds ==
    (pc = "done" /\ result.kind = "return")
        => /\ ScoredPairs = PairsOf(file_ids)
           /\ \A n \in 1..Len(pair.failed_sentence_ids) :
                \E m \in 1..Len(PairsOf(file_ids)) :
                    pair.failed_sentence_ids[n] = PairsOf(file_ids)[m]

\* ----- reference notions used to state the claims about main
\* the .tsv files of the batch, as paths
TsvFiles == {path \in DOMAIN batch : EndsWithTsv(path[2])}

\* whether path comes before the position <<d, k>> of the loops
Before(path, d, k) ==
    \/ path[1] < d
    \/ /\ path[1] = d
       /\ \E n \in 1..Len(Listing(Directory(batch, d))) :
            n < k /\ Listing(Directory(batch, d))[n] = path[2]

\* the file the loops are at
AtCursor(path) ==
    /\ pc \in {"files", "done"}
    /\ cursor.dir = path[1]
    /\ cursor.file \in 1..Len(Listing(Directory(batch, cursor.dir)))
    /\ Listing(Directory(batch, cursor.dir))[cursor.file] = path[2]

\* evaluate_file has been called on the file
Evaluated(path) ==
    \/ Before(path, cursor.dir, cursor.file)
    \/ AtCursor(path) /\ pc = "done"

UnknownType(path) ==
    ~Contains(path[2], "MFT") /\ ~Contains(path[2], "INV") /\ ~Contains(path[2], "DIR")

Printed(what, path) ==
    \E n \in 1..Len(printed) : printed[n].what = what /\ printed[n].path = path

\* C7: a .tsv file whose name holds no test's tag is warned about and skipped:
\* nothing is reported for it and evaluate_file completes normally.
\* (Violated: after the warning evaluate_file reads the unbound evaluation_type.)
C7_UnknownTypeSkipped ==
    \A path \in TsvFiles :
        (UnknownType(path) /\ Evaluated(path))
            => /\ Printed("Warning", path)
               /\ ~Printed("Failure Rate", path)
               /\ ~(AtCursor(path) /\ result.kind = "raise")

\* C8: when main is over, every .tsv file that comes after a file whose
\* evaluation failed has been evaluated.  (Violated: main catches nothing.)
C8_FailureIsFileScoped ==
    pc = "done" =>
        \A failing \in TsvFiles : \A later \in TsvFiles :
            ( /\ evaluate_file(failing, batch[failing]).exc # None
              /\ Evaluated(failing)
              /\ (later[1] > failing[1]
                    \/ (later[1] = failing[1] /\ Before(failing, later[1],
                          CHOOSE n \in 1..Len(Listing(Directory(batch, later[1]))) :
                            Listing(Directory(batch, later[1]))[n] = later[2])))
            ) => Evaluated(later)

====
